---- MODULE Spec2Model ----
(***************************************************************************)
(* Model of convert_to_json.py: the loaders, the assembly of the full      *)
(* document, its serialisation, the post-write summary/validation, and the *)
(* derivation of the compact document, run from __main__.                  *)
(*                                                                         *)
(* Python values are modelled as follows.                                  *)
(*   list            a sequence                                            *)
(*   dict            [items |-> <<k1, v1>>, <<k2, v2>>, ...] in insertion  *)
(*                   order, so [] and {} are different values              *)
(*   a table cell    <<>> for a missing value (NaN), <<v>> for a value v   *)
(*   a file          [st |-> "absent" | "bad" | "ok", data |-> ...] for an *)
(*                   input, and "absent" | "partial" | "written" for an    *)
(*                   output                                                *)
(***************************************************************************)
EXTENDS Integers, Sequences, FiniteSets, TLC

\* ------------------------------------------------------------- bounds
\* Number of jobs, questions in the input files as first installed.
NJobs == 2
NQuestions == 2
\* One run of the script: how many times the input directory is edited
\* before it.
MaxEdits == 2
\* Repeated runs: how many runs, and how many inputs are removed before or
\* between them.
MaxRuns == 2
MaxRemovals == 1

\* ------------------------------------------------------------- dicts
EmptyDict == [items |-> <<>>]
EmptyList == <<>>

DictKeys(d) == [i \in 1..Len(d.items) |-> d.items[i][1]]

HasKey(d, k) == \E i \in 1..Len(d.items) : d.items[i][1] = k

DictGet(d, k) == d.items[CHOOSE i \in 1..Len(d.items) : d.items[i][1] = k][2]

\* dict.get(k, default)
DictGetOr(d, k, default) == IF HasKey(d, k) THEN DictGet(d, k) ELSE default

\* d[k] = v : a new key is appended, an existing key keeps its position.
DictSet(d, k, v) ==
    IF HasKey(d, k)
    THEN [items |-> [i \in 1..Len(d.items) |->
                        IF d.items[i][1] = k THEN <<k, v>> ELSE d.items[i]]]
    ELSE [items |-> Append(d.items, <<k, v>>)]

\* A dict display {k1: v1, **e, k2: v2, ...} evaluated left to right.
RECURSIVE DictDisplay(_, _)
DictDisplay(d, pairs) ==
    IF pairs = <<>> THEN d
    ELSE DictDisplay(DictSet(d, Head(pairs)[1], Head(pairs)[2]), Tail(pairs))

\* ------------------------------------------------------------- inputs
languages == <<"en", "zh", "es", "fr", "ru", "ar">>
LangSet == {languages[i] : i \in 1..Len(languages)}

JobFile(lang) == "job_" \o lang \o ".npy"
JobFiles == {JobFile(l) : l \in LangSet}
ArrayFiles == JobFiles \cup {"job_codes.npy", "scaled_job_features.npy"}
InputFiles ==
    JobFiles \cup {"job_codes.npy", "pca_weights.npy", "scaled_job_features.npy",
                   "text_dict.npy", "language_display.npy", "questions.tsv",
                   "meanNorms.tsv", "sdNorms.tsv", "weightsB5.tsv", "your_scaler.pkl"}

Absent == [st |-> "absent", data |-> <<>>]
Ok(v) == [st |-> "ok", data |-> v]

\* A table is [columns |-> <<name, ...>>, rows |-> << <<cell, ...>>, ... >>].
QuestionTable ==
    [columns |-> languages,
     rows |-> [q \in 1..NQuestions |->
                 [c \in 1..Len(languages) |->
                    \* one missing value, in the zh column of the last row
                    IF languages[c] = "zh" /\ q = NQuestions
                    THEN <<>> ELSE <<"q_" \o languages[c] \o "_" \o ToString(q)>>]]]

NormTable(base) ==
    [columns |-> <<"group", "N", "E", "O", "A", "C">>,
     rows |-> [g \in 1..4 |->
                 <<g, base + g, base + 10 + g, base + 20 + g, base + 30 + g, base + 40 + g>>]]

WeightTable ==
    [columns |-> <<"N", "E", "O", "A", "C">>,
     rows |-> [q \in 1..NQuestions |-> <<q, 0, 0 - q, 1, 0>>]]

Scaler ==
    [items |-> << <<"mean_", <<50, 50, 50, 50, 50>> >>,
                  <<"scale_", <<10, 10, 10, 10, 10>> >>,
                  <<"var_", <<100, 100, 100, 100, 100>> >>,
                  <<"n_samples_seen_", 263>> >>]

InstalledFiles ==
    [f \in InputFiles |->
       CASE f \in JobFiles ->
              Ok([i \in 1..NJobs |-> f \o "#" \o ToString(i)])
         [] f = "job_codes.npy" -> Ok([i \in 1..NJobs |-> "code" \o ToString(i)])
         [] f = "pca_weights.npy" -> Ok(<< <<1, 2, 3, 4, 5>>, <<6, 7, 8, 9, 10>> >>)
         [] f = "scaled_job_features.npy" -> Ok([i \in 1..NJobs |-> <<i, i + 1>>])
         [] f = "text_dict.npy" -> Ok([items |-> << <<"title", "t">> >>])
         [] f = "language_display.npy" -> Ok([items |-> << <<"en", "English">> >>])
         [] f = "questions.tsv" -> Ok(QuestionTable)
         [] f = "meanNorms.tsv" -> Ok(NormTable(100))
         [] f = "sdNorms.tsv" -> Ok(NormTable(200))
         [] f = "weightsB5.tsv" -> Ok(WeightTable)
         [] f = "your_scaler.pkl" -> Ok(Scaler)]


\* ------------------------------------------------------------- loaders
\* A call returns [exc |-> "" or the exception raised, ret |-> the value
\* returned, out |-> the lines printed], a line being <<kind, subject>>.
Returned(v, out) == [exc |-> "", ret |-> v, out |-> out]
Raised(e, out) == [exc |-> e, ret |-> <<>>, out |-> out]

NotFound(f) == <<"not_found", f>>
Loaded(f) == <<"loaded", f>>

Lengths(d) == {Len(d.items[i][2]) : i \in 1..Len(d.items)}

RECURSIVE LoadJobsFrom(_, _, _, _)
LoadJobsFrom(fsys, i, job_translations, out) ==
    IF i > Len(languages)
    THEN Returned(job_translations,
                  IF Cardinality(Lengths(job_translations)) > 1
                  THEN Append(out, <<"warning", "job_lengths">>) ELSE out)
    ELSE LET lang == languages[i]
             filepath == JobFile(lang)
         IN CASE fsys[filepath].st = "ok" ->
                   LoadJobsFrom(fsys, i + 1,
                                DictSet(job_translations, lang, fsys[filepath].data),
                                Append(out, Loaded(filepath)))
              [] fsys[filepath].st = "absent" ->
                   LoadJobsFrom(fsys, i + 1, DictSet(job_translations, lang, EmptyList),
                                Append(out, NotFound(filepath)))
              [] OTHER -> Raised("ValueError", out)

load_multilingual_jobs(fsys) == LoadJobsFrom(fsys, 1, EmptyDict, <<>>)

\* LoadArray without its except clause: a missing file is an error.
LoadArrayUncaught(fsys, r, file, key) ==
    IF r.exc # "" THEN r
    ELSE IF fsys[file].st = "ok"
         THEN Returned(DictSet(r.ret, key, fsys[file].data), Append(r.out, Loaded(file)))
         ELSE Raised("FileNotFoundError", r.out)

\* One try block of load_base_job_data: np.load(file).tolist() into base_data[key].
LoadArray(fsys, r, file, key) ==
    IF r.exc # "" THEN r
    ELSE CASE fsys[file].st = "ok" ->
                Returned(DictSet(r.ret, key, fsys[file].data), Append(r.out, Loaded(file)))
           [] fsys[file].st = "absent" ->
                Returned(DictSet(r.ret, key, EmptyList), Append(r.out, NotFound(file)))
           [] OTHER -> Raised("ValueError", r.out)

load_base_job_data(fsys) ==
    LoadArray(fsys,
        LoadArray(fsys,
            LoadArray(fsys, Returned(EmptyDict, <<>>), "job_codes.npy", "job_codes"),
            "pca_weights.npy", "pca_weights"),
        "scaled_job_features.npy", "scaled_features")

\* LoadItem catching FileNotFoundError only, as the other loaders do.
LoadItemNarrow(fsys, r, file, key) ==
    IF r.exc # "" THEN r
    ELSE CASE fsys[file].st = "ok" ->
                Returned(DictSet(r.ret, key, fsys[file].data), Append(r.out, Loaded(file)))
           [] fsys[file].st = "absent" ->
                Returned(DictSet(r.ret, key, EmptyDict), Append(r.out, NotFound(file)))
           [] OTHER -> Raised("ValueError", r.out)

\* One try block of load_other_files: a bare except, so every failure is
\* reported as "not found" and replaced by {}.
LoadItem(fsys, r, file, key) ==
    IF fsys[file].st = "ok"
    THEN Returned(DictSet(r.ret, key, fsys[file].data), Append(r.out, Loaded(file)))
    ELSE Returned(DictSet(r.ret, key, EmptyDict), Append(r.out, NotFound(file)))

load_other_files(fsys) ==
    LoadItem(fsys,
        LoadItem(fsys, Returned(EmptyDict, <<>>), "text_dict.npy", "text_dict"),
        "language_display.npy", "language_display")

ColumnIndex(table, name) ==
    CHOOSE c \in 1..Len(table.columns) : table.columns[c] = name
HasColumn(table, name) == \E c \in 1..Len(table.columns) : table.columns[c] = name

\* The column with its missing values dropped instead of filled.
ColumnStringsDropna(table, name) ==
    LET present == SelectSeq([q \in 1..Len(table.rows) |-> q],
                             LAMBDA q : table.rows[q][ColumnIndex(table, name)] # <<>>)
    IN [k \in 1..Len(present) |-> table.rows[present[k]][ColumnIndex(table, name)][1]]

\* df[name].fillna('').astype(str).tolist()
FillnaStr(cell) == IF cell = <<>> THEN "" ELSE cell[1]
ColumnStrings(table, name) ==
    [q \in 1..Len(table.rows) |-> FillnaStr(table.rows[q][ColumnIndex(table, name)])]

\* A fallback that fills the column with empty strings.
FallbackColumnEmpty(questions_df) == [q \in 1..Len(questions_df.rows) |-> ""]

\* The else branch of the language loop: the English column stands in.
FallbackColumn(questions_df) == ColumnStrings(questions_df, "en")

RECURSIVE QuestionsFrom(_, _, _, _)
QuestionsFrom(questions_df, i, questions_dict, out) ==
    IF i > Len(languages)
    THEN Returned(<<questions_dict, Len(questions_df.rows)>>, out)
    ELSE LET lang == languages[i] IN
         IF HasColumn(questions_df, lang)
         THEN QuestionsFrom(questions_df, i + 1,
                            DictSet(questions_dict, lang, ColumnStrings(questions_df, lang)),
                            Append(out, Loaded(lang)))
         ELSE IF HasColumn(questions_df, "en")
              THEN QuestionsFrom(questions_df, i + 1,
                                 DictSet(questions_dict, lang, FallbackColumn(questions_df)),
                                 Append(out, <<"using_english", lang>>))
              ELSE Raised("KeyError", Append(out, <<"using_english", lang>>))

load_questions(fsys) ==
    CASE fsys["questions.tsv"].st = "ok" ->
           QuestionsFrom(fsys["questions.tsv"].data, 1, EmptyDict,
                         <<Loaded("questions.tsv")>>)
      [] fsys["questions.tsv"].st = "absent" ->
           Returned(<<EmptyDict, 0>>, <<NotFound("questions.tsv")>>)
      [] OTHER -> Raised("ParserError", <<>>)

\* for idx, row in df.iterrows(): json[int(row['group'])] = row[1:].tolist()
RECURSIVE NormsFrom(_, _, _)
NormsFrom(table, i, norms_json) ==
    IF i > Len(table.rows) THEN norms_json
    ELSE NormsFrom(table, i + 1,
                   DictSet(norms_json, table.rows[i][ColumnIndex(table, "group")],
                           Tail(table.rows[i])))

LoadNorms(fsys, r, file, key) ==
    IF r.exc # "" THEN r
    ELSE CASE fsys[file].st = "ok" ->
                IF HasColumn(fsys[file].data, "group")
                THEN Returned(DictSet(r.ret, key, NormsFrom(fsys[file].data, 1, EmptyDict)),
                              Append(r.out, Loaded(file)))
                ELSE Raised("KeyError", r.out)
           [] fsys[file].st = "absent" ->
                Returned(DictSet(r.ret, key, EmptyDict), Append(r.out, NotFound(file)))
           [] OTHER -> Raised("ParserError", r.out)

LoadWeights(fsys, r, file, key) ==
    IF r.exc # "" THEN r
    ELSE CASE fsys[file].st = "ok" ->
                Returned(DictSet(r.ret, key, fsys[file].data.rows), Append(r.out, Loaded(file)))
           [] fsys[file].st = "absent" ->
                Returned(DictSet(r.ret, key, EmptyList), Append(r.out, NotFound(file)))
           [] OTHER -> Raised("ParserError", r.out)

convert_tsv_files(fsys) ==
    LoadWeights(fsys,
        LoadNorms(fsys,
            LoadNorms(fsys, Returned(EmptyDict, <<>>), "meanNorms.tsv", "mean_norms"),
            "sdNorms.tsv", "sd_norms"),
        "weightsB5.tsv", "weights")

feature_names ==
    <<"Neuroticism", "Extraversion", "Openness", "Agreeableness", "Conscientiousness">>

load_scaler(fsys) ==
    CASE fsys["your_scaler.pkl"].st = "ok" ->
           LET scaler == fsys["your_scaler.pkl"].data IN
           Returned([items |-> <<
                        <<"mean", DictGetOr(scaler, "mean_", EmptyList)>>,
                        <<"scale", DictGetOr(scaler, "scale_", EmptyList)>>,
                        <<"var", DictGetOr(scaler, "var_", EmptyList)>>,
                        <<"n_samples_seen", DictGetOr(scaler, "n_samples_seen_", 0)>>,
                        <<"feature_names", feature_names>> >>],
                    <<Loaded("your_scaler.pkl")>>)
      [] fsys["your_scaler.pkl"].st = "absent" ->
           Returned(EmptyDict, <<NotFound("your_scaler.pkl")>>)
      [] OTHER -> Raised("UnpicklingError", <<>>)

\* ------------------------------------------------------------- static data
\* The literal texts are abbreviated to "<key>:<lang>"; their wording plays
\* no part in the program.
TextsFor(key) ==
    [items |-> [i \in 1..Len(languages) |-> <<languages[i], key \o ":" \o languages[i]>>]]

TraitNames ==
    [items |-> [i \in 1..Len(languages) |->
                  <<languages[i], [t \in 1..5 |-> "trait" \o ToString(t) \o ":" \o languages[i]]>>]]

get_translation_texts ==
    [items |-> << <<"titles", TextsFor("titles")>>,
                  <<"trait_names", TraitNames>>,
                  <<"disclaimer", TextsFor("disclaimer")>>,
                  <<"ideal_job_prompt", TextsFor("ideal_job_prompt")>>,
                  <<"ideal_job_warning", TextsFor("ideal_job_warning")>>,
                  <<"ideal_job_result", TextsFor("ideal_job_result")>>,
                  <<"closest_text", TextsFor("closest_text")>>,
                  <<"furthest_text", TextsFor("furthest_text")>> >>]

data_sources ==
    <<"job_en.npy, job_zh.npy, job_es.npy, job_fr.npy, job_ru.npy, job_ar.npy",
      "job_codes.npy", "scaled_job_features.npy", "pca_weights.npy", "meanNorms.tsv",
      "sdNorms.tsv", "questions.tsv", "weightsB5.tsv", "your_scaler.pkl">>

model_info ==
    [items |-> << <<"name", "JobRecommenderMLP">>, <<"input_dim", 5>>,
                  <<"hidden_dim", 128>>, <<"output_dim", 263>> >>]

\* get_metadata with a second field taken from the clock.
get_metadata_stamped(now) ==
    [items |-> << <<"version", "2.0.0">>,
                  <<"created_at", now>>,
                  <<"data_sources", data_sources>>,
                  <<"languages_supported", languages>>,
                  <<"n_jobs", 263 + now>>,
                  <<"model_info",
                    [items |-> << <<"name", "JobRecommenderMLP">>, <<"input_dim", 5>>,
                                  <<"hidden_dim", 128>>, <<"output_dim", 263 + now>> >>]>> >>]

\* now is the value of pd.Timestamp.now().isoformat()
get_metadata(now) ==
    [items |-> << <<"version", "2.0.0">>,
                  <<"created_at", now>>,
                  <<"data_sources", data_sources>>,
                  <<"languages_supported", languages>>,
                  <<"n_jobs", 263>>,
                  <<"model_info", model_info>> >>]

NormGroup(gender, age_range, description) ==
    [items |-> << <<"gender", gender>>, <<"age_range", age_range>>,
                  <<"description", description>> >>]

norm_groups ==
    [items |-> << <<1, NormGroup("Female", "<35", "Female under 35")>>,
                  <<2, NormGroup("Female", ">=35", "Female 35 and over")>>,
                  <<3, NormGroup("Male", "<35", "Male under 35")>>,
                  <<4, NormGroup("Male", ">=35", "Male 35 and over")>> >>]

\* ------------------------------------------------------------- assembly
\* The metadata display without the n_jobs override: the static 263 stays.
MetadataStatic(job_translations, n_questions, now) ==
    DictDisplay(EmptyDict,
        get_metadata(now).items \o
        << <<"n_questions", n_questions>>,
           <<"languages_available", DictKeys(job_translations)>> >>)

\* The "metadata" display of complete_data.
Metadata(job_translations, n_questions, now) ==
    DictDisplay(EmptyDict,
        get_metadata(now).items \o
        << <<"n_jobs", Len(DictGetOr(job_translations, "en", EmptyList))>>,
           <<"n_questions", n_questions>>,
           <<"languages_available", DictKeys(job_translations)>> >>)

\* The complete_data display without **other_data.
CompleteDataDropsOther(job_translations, base_data, other_data, questions_dict, n_questions, tsv_data, scaler_params, translations, now) ==
    DictDisplay(EmptyDict,
        << <<"job_translations", job_translations>>,
           <<"job_codes", DictGetOr(base_data, "job_codes", EmptyList)>>,
           <<"pca_weights", DictGetOr(base_data, "pca_weights", EmptyList)>>,
           <<"scaled_features", DictGetOr(base_data, "scaled_features", EmptyList)>>,
           <<"job_names", DictGetOr(job_translations, "en", EmptyList)>>,
           <<"questions", questions_dict>> >>
        \o tsv_data.items
        \o << <<"scaler_params", scaler_params>>,
              <<"translations", translations>>,
              <<"metadata", Metadata(job_translations, n_questions, now)>>,
              <<"norm_groups", norm_groups>> >>)

\* The complete_data display of convert_all_data.
CompleteData(job_translations, base_data, other_data, questions_dict, n_questions, tsv_data, scaler_params, translations, now) ==
    DictDisplay(EmptyDict,
        << <<"job_translations", job_translations>>,
           <<"job_codes", DictGetOr(base_data, "job_codes", EmptyList)>>,
           <<"pca_weights", DictGetOr(base_data, "pca_weights", EmptyList)>>,
           <<"scaled_features", DictGetOr(base_data, "scaled_features", EmptyList)>>,
           <<"job_names", DictGetOr(job_translations, "en", EmptyList)>> >>
        \o other_data.items
        \o << <<"questions", questions_dict>> >>
        \o tsv_data.items
        \o << <<"scaler_params", scaler_params>>,
              <<"translations", translations>>,
              <<"metadata", Metadata(job_translations, n_questions, now)>>,
              <<"norm_groups", norm_groups>> >>)

\* ------------------------------------------------------------- JSON
\* json.dump writes every dict key as a string: the integer keys of
\* mean_norms, sd_norms and norm_groups become "1", "2", ...
StrKeys(d) ==
    [items |-> [i \in 1..Len(d.items) |-> <<ToString(d.items[i][1]), d.items[i][2]>>]]

IntKeyed == {"mean_norms", "sd_norms", "norm_groups"}

\* The JSON value json.dump(complete_data, ...) writes.
JsonOfComplete(doc) ==
    [items |-> [i \in 1..Len(doc.items) |->
                  IF doc.items[i][1] \in IntKeyed
                  THEN <<doc.items[i][1], StrKeys(doc.items[i][2])>>
                  ELSE doc.items[i]]]

NoFile == [st |-> "absent", format |-> "", value |-> EmptyDict]
Partial(format) == [st |-> "partial", format |-> format, value |-> EmptyDict]
Written(format, value) == [st |-> "written", format |-> format, value |-> value]

\* ------------------------------------------------------------- validation
\* The three booleans printed under "Data Validation".
NoReport ==
    [printed |-> FALSE, job_translations |-> FALSE, job_codes |-> FALSE,
     scaled_features |-> FALSE]

\* One verdict printed three times.
DataValidationAggregated(complete_data) ==
    LET job_translations == DictGetOr(complete_data, "job_translations", EmptyDict)
        n_jobs == Len(DictGetOr(job_translations, "en", EmptyList))
        all_ok ==
            /\ \A i \in 1..Len(job_translations.items) :
                  Len(job_translations.items[i][2]) = n_jobs
            /\ Len(DictGetOr(complete_data, "job_codes", EmptyList)) = n_jobs
            /\ Len(DictGetOr(complete_data, "scaled_features", EmptyList)) = n_jobs
    IN [printed |-> TRUE, job_translations |-> all_ok, job_codes |-> all_ok,
        scaled_features |-> all_ok]

DataValidation(complete_data) ==
    LET job_translations == DictGetOr(complete_data, "job_translations", EmptyDict)
        n_jobs == Len(DictGetOr(job_translations, "en", EmptyList))
    IN [printed |-> TRUE,
        job_translations |->
            \A i \in 1..Len(job_translations.items) :
                Len(job_translations.items[i][2]) = n_jobs,
        job_codes |-> Len(DictGetOr(complete_data, "job_codes", EmptyList)) = n_jobs,
        scaled_features |->
            Len(DictGetOr(complete_data, "scaled_features", EmptyList)) = n_jobs]

\* ------------------------------------------------------------- compact
\* compact_data with mean_norms read from the wrong key.
CompactDataWrongKey(full_data) ==
    LET translations == DictGetOr(full_data, "translations", EmptyDict)
        job_translations == DictGetOr(full_data, "job_translations", EmptyDict)
    IN DictDisplay(EmptyDict,
        << <<"job_translations", job_translations>>,
           <<"job_codes", DictGetOr(full_data, "job_codes", EmptyList)>>,
           <<"scaled_features", DictGetOr(full_data, "scaled_features", EmptyList)>>,
           <<"pca_weights", DictGetOr(full_data, "pca_weights", EmptyList)>>,
           <<"questions", DictGetOr(full_data, "questions", EmptyDict)>>,
           <<"mean_norms", DictGetOr(full_data, "sd_norms", EmptyDict)>>,
           <<"sd_norms", DictGetOr(full_data, "sd_norms", EmptyDict)>>,
           <<"weights", DictGetOr(full_data, "weights", EmptyList)>>,
           <<"scaler_params", DictGetOr(full_data, "scaler_params", EmptyDict)>>,
           <<"translations",
             [items |-> << <<"trait_names", DictGetOr(translations, "trait_names", EmptyDict)>>,
                           <<"disclaimer", DictGetOr(translations, "disclaimer", EmptyDict)>> >>]>>,
           <<"metadata",
             [items |-> <<
                <<"n_jobs", Len(DictGetOr(job_translations, "en", EmptyList))>>,
                <<"n_questions",
                  Len(DictGetOr(DictGetOr(full_data, "questions", EmptyDict), "en", EmptyList))>>,
                <<"languages", DictKeys(job_translations)>> >>]>> >>)

\* The compact_data display of create_compact_version.
CompactData(full_data) ==
    LET translations == DictGetOr(full_data, "translations", EmptyDict)
        job_translations == DictGetOr(full_data, "job_translations", EmptyDict)
    IN DictDisplay(EmptyDict,
        << <<"job_translations", job_translations>>,
           <<"job_codes", DictGetOr(full_data, "job_codes", EmptyList)>>,
           <<"scaled_features", DictGetOr(full_data, "scaled_features", EmptyList)>>,
           <<"pca_weights", DictGetOr(full_data, "pca_weights", EmptyList)>>,
           <<"questions", DictGetOr(full_data, "questions", EmptyDict)>>,
           <<"mean_norms", DictGetOr(full_data, "mean_norms", EmptyDict)>>,
           <<"sd_norms", DictGetOr(full_data, "sd_norms", EmptyDict)>>,
           <<"weights", DictGetOr(full_data, "weights", EmptyList)>>,
           <<"scaler_params", DictGetOr(full_data, "scaler_params", EmptyDict)>>,
           <<"translations",
             [items |-> << <<"trait_names", DictGetOr(translations, "trait_names", EmptyDict)>>,
                           <<"disclaimer", DictGetOr(translations, "disclaimer", EmptyDict)>> >>]>>,
           <<"metadata",
             [items |-> <<
                <<"n_jobs", Len(DictGetOr(job_translations, "en", EmptyList))>>,
                <<"n_questions",
                  Len(DictGetOr(DictGetOr(full_data, "questions", EmptyDict), "en", EmptyList))>>,
                <<"languages", DictKeys(job_translations)>> >>]>> >>)

\* ------------------------------------------------------------- state
VARIABLES
    fs,                \* the input files in the working directory
    full_file,         \* app_data_complete.json
    compact_file,      \* app_data_compact.json
    pc,                \* where the script is
    job_translations, base_data, other_data, questions, tsv_data, scaler_params,
    complete_data,     \* locals of convert_all_data (questions is the pair returned)
    exc,               \* the exception convert_all_data caught, "" if none
    output_file,       \* what convert_all_data returned, "None" for None
    report,            \* the Data Validation booleans printed
    out,               \* the lines printed by the current run
    io,                \* the I/O operations that failed in the current run
    clock,             \* pd.Timestamp.now()
    edits, runs,       \* how many edits of the directory, runs of the script remain
    prev               \* the previous run: its inputs, outputs and result

locals ==
    <<job_translations, base_data, other_data, questions, tsv_data, scaler_params,
      complete_data>>
files == <<fs, full_file, compact_file>>
vars == <<fs, full_file, compact_file, pc, job_translations, base_data, other_data,
          questions, tsv_data, scaler_params, complete_data, exc, output_file, report,
          out, io, clock, edits, runs, prev>>

FULL == "app_data_complete.json"
COMPACT == "app_data_compact.json"

NoRun ==
    [ran |-> FALSE, fs |-> InstalledFiles, full_file |-> NoFile, compact_file |-> NoFile,
     output_file |-> "None", exc |-> "", io |-> {}, report |-> NoReport, out |-> <<>>]

Installed ==
    /\ fs = InstalledFiles
    /\ full_file = NoFile
    /\ compact_file = NoFile
    /\ pc = "idle"
    /\ job_translations = EmptyDict
    /\ base_data = EmptyDict
    /\ other_data = EmptyDict
    /\ questions = <<EmptyDict, 0>>
    /\ tsv_data = EmptyDict
    /\ scaler_params = EmptyDict
    /\ complete_data = EmptyDict
    /\ exc = ""
    /\ output_file = "None"
    /\ report = NoReport
    /\ out = <<>>
    /\ io = {}
    /\ clock = 1
    /\ prev = NoRun

\* One run, after up to MaxEdits edits of the directory.
Init ==
    /\ Installed
    /\ edits = MaxEdits
    /\ runs = 1

\* Up to MaxRuns runs, with up to MaxRemovals inputs removed on the way.
RerunInit ==
    /\ Installed
    /\ edits = MaxRemovals
    /\ runs = MaxRuns

\* ------------------------------------------------------------- environment
\* Before a run somebody may remove an input, damage it, replace an array
\* by a shorter one, or remove a column of the question table.
Edit(f, content) ==
    /\ pc = "idle"
    /\ edits > 0
    /\ runs > 0
    /\ fs' = [fs EXCEPT ![f] = content]
    /\ edits' = edits - 1
    /\ UNCHANGED <<full_file, compact_file, pc, locals, exc, output_file, report, out, io,
                   clock, runs, prev>>

DeleteInput ==
    \E f \in InputFiles :
        /\ fs[f].st # "absent"
        /\ Edit(f, Absent)

CorruptInput ==
    \E f \in InputFiles :
        /\ fs[f].st = "ok"
        /\ Edit(f, [st |-> "bad", data |-> <<>>])

TruncateArray ==
    \E f \in ArrayFiles :
        /\ fs[f].st = "ok"
        /\ Len(fs[f].data) > 0
        /\ Edit(f, Ok(SubSeq(fs[f].data, 1, Len(fs[f].data) - 1)))

WithoutColumn(table, name) ==
    LET keep == SelectSeq([c \in 1..Len(table.columns) |-> c],
                          LAMBDA c : table.columns[c] # name)
    IN [columns |-> [k \in 1..Len(keep) |-> table.columns[keep[k]]],
        rows |-> [q \in 1..Len(table.rows) |->
                    [k \in 1..Len(keep) |-> table.rows[q][keep[k]]]]]

DropQuestionColumn ==
    \E lang \in LangSet :
        /\ fs["questions.tsv"].st = "ok"
        /\ HasColumn(fs["questions.tsv"].data, lang)
        /\ Edit("questions.tsv", Ok(WithoutColumn(fs["questions.tsv"].data, lang)))

\* A question of the table is left without its English text.
WithoutCell(table, q, name) ==
    [table EXCEPT !.rows[q][ColumnIndex(table, name)] = <<>>]

BlankEnglishQuestion ==
    \E q \in 1..NQuestions :
        /\ fs["questions.tsv"].st = "ok"
        /\ HasColumn(fs["questions.tsv"].data, "en")
        /\ fs["questions.tsv"].data.rows[q][ColumnIndex(fs["questions.tsv"].data, "en")] # <<>>
        /\ Edit("questions.tsv", Ok(WithoutCell(fs["questions.tsv"].data, q, "en")))

\* ------------------------------------------------------------- the script
\* python convert_to_json.py
Start ==
    /\ pc = "idle"
    /\ runs > 0
    /\ runs' = runs - 1
    /\ pc' = "load_jobs"
    /\ job_translations' = EmptyDict
    /\ base_data' = EmptyDict
    /\ other_data' = EmptyDict
    /\ questions' = <<EmptyDict, 0>>
    /\ tsv_data' = EmptyDict
    /\ scaler_params' = EmptyDict
    /\ complete_data' = EmptyDict
    /\ exc' = ""
    /\ output_file' = "None"
    /\ report' = NoReport
    /\ out' = <<>>
    /\ io' = {}
    /\ UNCHANGED <<files, clock, edits, prev>>

\* A call inside the try block of convert_all_data: on return the script
\* goes on to `next`, on an exception to the except clause.
Call(r, next) ==
    /\ out' = out \o r.out
    /\ IF r.exc = ""
       THEN pc' = next /\ exc' = exc
       ELSE pc' = "except" /\ exc' = r.exc
    /\ UNCHANGED <<files, output_file, report, io, clock, edits, runs, prev>>

LoadMultilingualJobs ==
    /\ pc = "load_jobs"
    /\ LET r == load_multilingual_jobs(fs) IN
         /\ Call(r, "load_base")
         /\ job_translations' = IF r.exc = "" THEN r.ret ELSE job_translations
    /\ UNCHANGED <<base_data, other_data, questions, tsv_data, scaler_params, complete_data>>

LoadBaseJobData ==
    /\ pc = "load_base"
    /\ LET r == load_base_job_data(fs) IN
         /\ Call(r, "load_other")
         /\ base_data' = IF r.exc = "" THEN r.ret ELSE base_data
    /\ UNCHANGED <<job_translations, other_data, questions, tsv_data, scaler_params,
                   complete_data>>

LoadOtherFiles ==
    /\ pc = "load_other"
    /\ LET r == load_other_files(fs) IN
         /\ Call(r, "load_questions")
         /\ other_data' = IF r.exc = "" THEN r.ret ELSE other_data
    /\ UNCHANGED <<job_translations, base_data, questions, tsv_data, scaler_params,
                   complete_data>>

LoadQuestions ==
    /\ pc = "load_questions"
    /\ LET r == load_questions(fs) IN
         /\ Call(r, "convert_tsv")
         /\ questions' = IF r.exc = "" THEN r.ret ELSE questions
    /\ UNCHANGED <<job_translations, base_data, other_data, tsv_data, scaler_params,
                   complete_data>>

ConvertTsvFiles ==
    /\ pc = "convert_tsv"
    /\ LET r == convert_tsv_files(fs) IN
         /\ Call(r, "load_scaler")
         /\ tsv_data' = IF r.exc = "" THEN r.ret ELSE tsv_data
    /\ UNCHANGED <<job_translations, base_data, other_data, questions, scaler_params,
                   complete_data>>

LoadScaler ==
    /\ pc = "load_scaler"
    /\ LET r == load_scaler(fs) IN
         /\ Call(r, "build")
         /\ scaler_params' = IF r.exc = "" THEN r.ret ELSE scaler_params
    /\ UNCHANGED <<job_translations, base_data, other_data, questions, tsv_data,
                   complete_data>>

\* Steps 7 and 8: get_translation_texts() and the complete_data display.
BuildCompleteData ==
    /\ pc = "build"
    /\ complete_data' =
         CompleteData(job_translations, base_data, other_data, questions[1], questions[2],
                      tsv_data, scaler_params, get_translation_texts, clock)
    /\ clock' = clock + 1
    /\ pc' = "save"
    /\ UNCHANGED <<files, job_translations, base_data, other_data, questions, tsv_data,
                   scaler_params, exc, output_file, report, out, io, edits, runs, prev>>

\* Step 9: open(output_file, "w") truncates the file and json.dump fills it;
\* when the write fails the file is left incomplete.
SaveFull ==
    /\ pc = "save"
    /\ \E ok \in BOOLEAN :
         IF ok
         THEN /\ full_file' = Written("indent=2", JsonOfComplete(complete_data))
              /\ out' = Append(out, <<"saved", FULL>>)
              /\ pc' = "summary"
              /\ UNCHANGED <<exc, io>>
         ELSE /\ full_file' = Partial("indent=2")
              /\ io' = io \cup {"write_full"}
              /\ exc' = "OSError"
              /\ pc' = "except"
              /\ out' = out
    /\ UNCHANGED <<fs, compact_file, locals, output_file, report, clock, edits, runs, prev>>

\* A summary that raises when a validation check fails.
SummaryExceptionOnMismatch(data, getsize_ok) ==
    IF ~getsize_ok THEN "OSError"
    ELSE IF DataValidation(data).job_translations
            /\ DataValidation(data).job_codes
            /\ DataValidation(data).scaled_features
         THEN "" ELSE "ValueError"

\* What step 10 raises: nothing in it depends on the validation results,
\* os.path.getsize is the one call that can fail.
SummaryException(data, getsize_ok) == IF getsize_ok THEN "" ELSE "OSError"

\* Step 10: the file size, the summary and the Data Validation lines, then
\* return output_file.
Summary ==
    /\ pc = "summary"
    /\ \E ok \in BOOLEAN :
         IF SummaryException(complete_data, ok) = ""
         THEN /\ report' = DataValidation(complete_data)
              /\ output_file' = FULL
              /\ pc' = "main"
              /\ UNCHANGED <<exc, io>>
         ELSE /\ io' = IF ok THEN io ELSE io \cup {"getsize"}
              /\ exc' = SummaryException(complete_data, ok)
              /\ pc' = "except"
              /\ UNCHANGED <<report, output_file>>
    /\ UNCHANGED <<files, locals, out, clock, edits, runs, prev>>

\* except Exception as e: print, traceback, return None
Except ==
    /\ pc = "except"
    /\ out' = Append(out, <<"error", exc>>)
    /\ output_file' = "None"
    /\ pc' = "main"
    /\ UNCHANGED <<files, locals, exc, report, io, clock, edits, runs, prev>>

\* A main that derives the compact file whatever was returned.
RunsCompactAlways(returned) == TRUE

\* if output_file:
RunsCompact(returned) == returned # "None"

\* if output_file: ... else: print("Conversion failed ...")
Main ==
    /\ pc = "main"
    /\ IF RunsCompact(output_file)
       THEN pc' = "compact" /\ out' = out
       ELSE pc' = "done" /\ out' = Append(out, <<"failed", "conversion">>)
    /\ UNCHANGED <<files, locals, exc, output_file, report, io, clock, edits, runs, prev>>

\* create_compact_version(): every failure is caught and printed.
CreateCompactVersion ==
    /\ pc = "compact"
    /\ IF full_file.st # "written"
       THEN /\ out' = Append(out, <<"failed", COMPACT>>)
            /\ UNCHANGED <<compact_file, io>>
       ELSE \E ok \in BOOLEAN :
              IF ok
              THEN /\ compact_file' = Written("minified", CompactData(full_file.value))
                   /\ out' = out \o << <<"saved", COMPACT>>, <<"complete", "all">> >>
                   /\ io' = io
              ELSE /\ compact_file' = Partial("minified")
                   /\ io' = io \cup {"write_compact"}
                   /\ out' = out \o << <<"failed", COMPACT>>, <<"complete", "all">> >>
    /\ pc' = "done"
    /\ UNCHANGED <<fs, full_file, locals, exc, output_file, report, clock, edits, runs, prev>>

\* The process exits; what it read and wrote stays on disk.
Exit ==
    /\ pc = "done"
    /\ pc' = "idle"
    /\ prev' = [ran |-> TRUE, fs |-> fs, full_file |-> full_file,
                compact_file |-> compact_file, output_file |-> output_file,
                exc |-> exc, io |-> io, report |-> report, out |-> out]
    /\ UNCHANGED <<files, locals, exc, output_file, report, out, io, clock, edits, runs>>

Next ==
    \/ DeleteInput
    \/ CorruptInput
    \/ TruncateArray
    \/ DropQuestionColumn
    \/ BlankEnglishQuestion
    \/ Start
    \/ LoadMultilingualJobs
    \/ LoadBaseJobData
    \/ LoadOtherFiles
    \/ LoadQuestions
    \/ ConvertTsvFiles
    \/ LoadScaler
    \/ BuildCompleteData
    \/ SaveFull
    \/ Summary
    \/ Except
    \/ Main
    \/ CreateCompactVersion
    \/ Exit

Spec == Init /\ [][Next]_vars

\* The script and the removal of inputs only.
RerunNext ==
    \/ DeleteInput
    \/ Start
    \/ LoadMultilingualJobs
    \/ LoadBaseJobData
    \/ LoadOtherFiles
    \/ LoadQuestions
    \/ ConvertTsvFiles
    \/ LoadScaler
    \/ BuildCompleteData
    \/ SaveFull
    \/ Summary
    \/ Except
    \/ Main
    \/ CreateCompactVersion
    \/ Exit

RerunSpec == RerunInit /\ [][RerunNext]_vars

\* ------------------------------------------------------------- properties
Printed(line) == \E i \in 1..Len(out) : out[i] = line

LangOf(f) == CHOOSE l \in LangSet : JobFile(l) = f

\* The top-level key of the full document an input file feeds.
FieldOf(f) ==
    CASE f \in JobFiles -> "job_translations"
      [] f = "job_codes.npy" -> "job_codes"
      [] f = "pca_weights.npy" -> "pca_weights"
      [] f = "scaled_job_features.npy" -> "scaled_features"
      [] f = "text_dict.npy" -> "text_dict"
      [] f = "language_display.npy" -> "language_display"
      [] f = "questions.tsv" -> "questions"
      [] f = "meanNorms.tsv" -> "mean_norms"
      [] f = "sdNorms.tsv" -> "sd_norms"
      [] f = "weightsB5.tsv" -> "weights"
      [] f = "your_scaler.pkl" -> "scaler_params"

ListFiles == {"job_codes.npy", "pca_weights.npy", "scaled_job_features.npy", "weightsB5.tsv"}

\* The field fed by f holds the empty default, [] or {}.
FedIsDefault(f, doc) ==
    CASE f \in JobFiles ->
           DictGet(DictGet(doc, "job_translations"), LangOf(f)) = EmptyList
      [] f \in ListFiles -> DictGet(doc, FieldOf(f)) = EmptyList
      [] OTHER -> DictGet(doc, FieldOf(f)) = EmptyDict

\* doc with the given metadata entries overwritten by 0.
RECURSIVE BlankMeta(_, _)
BlankMeta(doc, subkeys) ==
    IF subkeys = <<>> THEN doc
    ELSE BlankMeta(DictSet(doc, "metadata",
                           DictSet(DictGet(doc, "metadata"), Head(subkeys), 0)),
                   Tail(subkeys))

\* Both outputs were written by the current run.
BothWritten ==
    /\ output_file = FULL
    /\ full_file.st = "written"
    /\ compact_file.st = "written"
    /\ Printed(<<"saved", FULL>>)
    /\ Printed(<<"saved", COMPACT>>)

\* The current run has finished; it ran on the installed inputs less f, the
\* run before it on all of them, and no write failed in either.
RemovedOne(f) ==
    /\ pc = "done"
    /\ prev.ran
    /\ prev.fs = InstalledFiles
    /\ prev.io = {}
    /\ io = {}
    /\ fs = [InstalledFiles EXCEPT ![f] = Absent]

\* Every top-level field but those in `except` is as in the document `old`,
\* the metadata entries `subkeys` set aside; for a job file, the other
\* languages' lists too.
OthersSame(f, doc, old, except, subkeys) ==
    /\ DictKeys(doc) = DictKeys(old)
    /\ \A i \in 1..Len(doc.items) :
         LET k == doc.items[i][1] IN
           k \notin except =>
             DictGet(BlankMeta(doc, subkeys), k) = DictGet(BlankMeta(old, subkeys), k)
    /\ f \in JobFiles =>
         \A l \in LangSet \ {LangOf(f)} :
            DictGet(DictGet(doc, "job_translations"), l)
              = DictGet(DictGet(old, "job_translations"), l)

\* C1 as stated: with exactly one input file absent the run writes both
\* outputs, the field fed by the file holds its empty default and every
\* other field of the full document is as in the run with the file present
\* (the timestamp set aside).
C1_AsStated ==
    \A f \in InputFiles :
       RemovedOne(f) =>
         /\ BothWritten
         /\ FedIsDefault(f, full_file.value)
         /\ OthersSame(f, full_file.value, prev.full_file.value, {FieldOf(f)},
                       <<"created_at">>)

\* The fields derived from an input besides the one it feeds.
DerivedKeys(f) ==
    CASE f = "job_en.npy" -> {"job_names"}
      [] OTHER -> {}
DerivedMeta(f) ==
    CASE f = "job_en.npy" -> <<"n_jobs">>
      [] f = "questions.tsv" -> <<"n_questions">>
      [] OTHER -> <<>>

\* C1 (amended): with exactly one input file absent the run writes both
\* outputs, the field fed by the file holds its empty default, the fields
\* derived from that input hold theirs (job_names = [] and metadata.n_jobs
\* = 0 without job_en.npy, metadata.n_questions = 0 without questions.tsv),
\* and every other field of the full document except metadata.created_at is
\* as in the run with the file present.
C1_SingleAbsentInput ==
    \A f \in InputFiles :
       RemovedOne(f) =>
         /\ BothWritten
         /\ FedIsDefault(f, full_file.value)
         /\ f = "job_en.npy" =>
              /\ DictGet(full_file.value, "job_names") = EmptyList
              /\ DictGet(DictGet(full_file.value, "metadata"), "n_jobs") = 0
         /\ f = "questions.tsv" =>
              DictGet(DictGet(full_file.value, "metadata"), "n_questions") = 0
         /\ OthersSame(f, full_file.value, prev.full_file.value,
                       {FieldOf(f)} \cup DerivedKeys(f),
                       <<"created_at">> \o DerivedMeta(f))

\* A run without job_en.npy has finished after a run on all the inputs.
C1_Witness ==
    /\ RemovedOne("job_en.npy")
    /\ BothWritten
    /\ DictGet(DictGet(prev.full_file.value, "metadata"), "n_jobs") = NJobs

AuxFiles == {"text_dict.npy", "language_display.npy"}
BadFiles == {f \in InputFiles : fs[f].st = "bad"}
NoEnglishColumn ==
    /\ fs["questions.tsv"].st = "ok"
    /\ ~HasColumn(fs["questions.tsv"].data, "en")

\* C2 as stated: when an input exists but fails to load, its field takes
\* the empty default and both outputs are written.
C2_AsStated ==
    (pc = "done" /\ io = {} /\ BadFiles # {} /\ ~NoEnglishColumn) =>
        /\ BothWritten
        /\ \A f \in BadFiles : FedIsDefault(f, full_file.value)

\* C2 (amended): when text_dict.npy or language_display.npy exists but
\* fails to load, load_other_files reports it as not found, its field is {}
\* and both outputs are written; when any other input exists but fails to
\* load, the error reaches convert_all_data, which prints it and returns
\* None, and that run writes neither output.
C2_MalformedInput ==
    (pc = "done" /\ io = {} /\ BadFiles # {}) =>
        IF BadFiles \subseteq AuxFiles
        THEN ~NoEnglishColumn =>
               /\ BothWritten
               /\ \A f \in BadFiles :
                    FedIsDefault(f, full_file.value) /\ Printed(NotFound(f))
        ELSE /\ exc # ""
             /\ output_file = "None"
             /\ Printed(<<"error", exc>>)
             /\ Printed(<<"failed", "conversion">>)
             /\ full_file = NoFile
             /\ compact_file = NoFile

\* A run with a damaged text_dict.npy has written both outputs.
C2_Witness ==
    /\ pc = "done"
    /\ fs["text_dict.npy"].st = "bad"
    /\ BothWritten

\* C3: metadata.n_jobs is the length of job_translations["en"] (0 without
\* job_en.npy, whatever the static 263 says) and metadata.languages_available
\* lists the keys of job_translations, which are the six language codes
\* whichever job files are present; the written document says the same.
C3_JobMetadata ==
    HasKey(complete_data, "metadata") =>
        LET jt == DictGet(complete_data, "job_translations")
            meta == DictGet(complete_data, "metadata")
            en == fs["job_en.npy"]
        IN /\ DictGet(meta, "n_jobs") = Len(DictGet(jt, "en"))
           /\ DictGet(meta, "n_jobs") = IF en.st = "ok" THEN Len(en.data) ELSE 0
           /\ DictGet(meta, "languages_available") = DictKeys(jt)
           /\ DictKeys(jt) = languages
           /\ full_file.st = "written" =>
                /\ DictGet(full_file.value, "metadata") = meta
                /\ DictGet(full_file.value, "job_translations") = jt

\* A run without job_en.npy but with job_zh.npy has written both outputs.
C3_Witness ==
    /\ pc = "done"
    /\ BothWritten
    /\ fs["job_en.npy"].st = "absent"
    /\ fs["job_zh.npy"].st = "ok"
    /\ DictGet(DictGet(full_file.value, "metadata"), "n_jobs") = 0

\* load_questions has read the question table in the current run.
QuestionsRead == Printed(Loaded("questions.tsv"))
QuestionTableRead == fs["questions.tsv"].data

\* C4 as stated: once the table is read, every language without a column
\* has the English questions and a logged fallback.
C4_AsStated ==
    QuestionsRead =>
        \A X \in LangSet :
           ~HasColumn(QuestionTableRead, X) =>
               /\ HasKey(questions[1], X)
               /\ HasKey(questions[1], "en")
               /\ DictGet(questions[1], X) = DictGet(questions[1], "en")
               /\ Printed(<<"using_english", X>>)

\* C4 (amended): when the table has an English column, every language
\* without a column has exactly the English questions and a logged
\* fallback, and every language with a column has its own column's values
\* (a missing value read as ''); when the English column itself is missing,
\* load_questions logs the fallback for "en" and raises KeyError, no
\* questions are returned and the run writes no output.
C4_QuestionFallback ==
    QuestionsRead =>
        LET t == QuestionTableRead IN
        IF HasColumn(t, "en")
        THEN \A X \in LangSet :
               /\ HasKey(questions[1], X)
               /\ Len(DictGet(questions[1], X)) = Len(t.rows)
               /\ questions[2] = Len(t.rows)
               /\ IF HasColumn(t, X)
                  THEN /\ ~Printed(<<"using_english", X>>)
                       /\ \A q \in 1..Len(t.rows) :
                            LET cell == t.rows[q][ColumnIndex(t, X)] IN
                              DictGet(questions[1], X)[q]
                                = IF cell = <<>> THEN "" ELSE cell[1]
                  ELSE /\ Printed(<<"using_english", X>>)
                       /\ DictGet(questions[1], X) = DictGet(questions[1], "en")
        ELSE /\ Printed(<<"using_english", "en">>)
             /\ questions[1] = EmptyDict
             /\ exc = "KeyError"
             /\ output_file = "None"
             /\ full_file = NoFile
             /\ compact_file = NoFile

\* A run on a table without a zh column has written both outputs.
C4_Witness ==
    /\ pc = "done"
    /\ BothWritten
    /\ QuestionsRead
    /\ HasColumn(QuestionTableRead, "en")
    /\ ~HasColumn(QuestionTableRead, "zh")
    /\ DictGet(DictGet(full_file.value, "questions"), "zh")
         = DictGet(DictGet(full_file.value, "questions"), "en")

\* In the assembled document the job list of language L is one shorter than
\* every other language's.
OneShort(L) ==
    /\ report.printed
    /\ LET jt == DictGet(complete_data, "job_translations") IN
         \A l \in LangSet \ {L} : Len(DictGet(jt, l)) = Len(DictGet(jt, L)) + 1

\* What the Data Validation line "Job translations" says about a language:
\* the line carries one boolean, for all languages alike.
ReportedFor(l) == report.job_translations

\* C5 as stated: the translation-length check reports failure for exactly
\* the short language and success for every other language.
C5_AsStated ==
    \A L \in LangSet :
       OneShort(L) => \A l \in LangSet : ReportedFor(l) = (l # L)

\* C5 (amended): for such a document the translation-length check, which is
\* one boolean over all languages, reports failure without naming the
\* language (the lengths appear only in load_multilingual_jobs' warning);
\* the code and scaled-feature checks are reported as booleans of their own,
\* each the comparison of its own length with the English job count.
C5_ValidationBooleans ==
    \A L \in LangSet :
       OneShort(L) =>
         LET n_jobs == Len(DictGet(DictGet(complete_data, "job_translations"), "en")) IN
         /\ report.job_translations = FALSE
         /\ \A l \in LangSet : ReportedFor(l) = FALSE
         /\ Printed(<<"warning", "job_lengths">>)
         /\ report.job_codes = (Len(DictGet(complete_data, "job_codes")) = n_jobs)
         /\ report.scaled_features =
              (Len(DictGet(complete_data, "scaled_features")) = n_jobs)

\* The zh list alone is short: the translation check fails, the other two pass.
C5_Witness ==
    /\ OneShort("zh")
    /\ Len(DictGet(DictGet(complete_data, "job_translations"), "en")) = NJobs
    /\ ~report.job_translations
    /\ report.job_codes
    /\ report.scaled_features

Whitelist ==
    <<"job_translations", "job_codes", "scaled_features", "pca_weights", "questions",
      "mean_norms", "sd_norms", "weights", "scaler_params">>

\* C6: after a run that wrote both outputs, every whitelisted field of the
\* compact document equals the same field of the written full document, so
\* do translations.trait_names and translations.disclaimer, and the compact
\* document's top-level keys are the whitelist, translations and metadata.
C6_CompactFields ==
    (pc = "done" /\ BothWritten) =>
        LET full == full_file.value
            compact == compact_file.value
        IN /\ DictKeys(compact) = Whitelist \o <<"translations", "metadata">>
           /\ \A i \in 1..Len(Whitelist) :
                /\ HasKey(full, Whitelist[i])
                /\ DictGet(compact, Whitelist[i]) = DictGet(full, Whitelist[i])
           /\ DictKeys(DictGet(compact, "translations")) = <<"trait_names", "disclaimer">>
           /\ \A k \in {"trait_names", "disclaimer"} :
                DictGet(DictGet(compact, "translations"), k)
                  = DictGet(DictGet(full, "translations"), k)

\* Both outputs are written from loaded norm tables, whose integer group
\* keys are strings in the written document.
C6_Witness ==
    /\ pc = "done"
    /\ BothWritten
    /\ DictKeys(DictGet(compact_file.value, "mean_norms")) = <<"1", "2", "3", "4">>
    /\ DictKeys(DictGet(complete_data, "mean_norms")) = <<1, 2, 3, 4>>
    /\ DictGet(compact_file.value, "sd_norms") # DictGet(compact_file.value, "mean_norms")

\* The assembled document has a job list, the code list or the feature
\* matrix of a length other than N_jobs.
Inconsistent(doc) ==
    LET jt == DictGet(doc, "job_translations")
        n_jobs == Len(DictGet(jt, "en"))
    IN \/ \E l \in LangSet : Len(DictGet(jt, l)) # n_jobs
       \/ Len(DictGet(doc, "job_codes")) # n_jobs
       \/ Len(DictGet(doc, "scaled_features")) # n_jobs

\* C7: a run whose inputs all load and whose writes succeed ends, however
\* inconsistent the lengths, without an exception and with both outputs
\* written; the inconsistency shows as a False among the three validation
\* results, and the document is after validation what was assembled and
\* written before it.
C7_ViolationNotFatal ==
    (/\ pc \in {"main", "compact", "done"}
     /\ io = {}
     /\ HasKey(complete_data, "metadata")
     /\ Inconsistent(complete_data)) =>
        /\ exc = ""
        /\ output_file = FULL
        /\ report.printed
        /\ ~(report.job_translations /\ report.job_codes /\ report.scaled_features)
        /\ full_file = Written("indent=2", JsonOfComplete(complete_data))
        /\ complete_data =
             CompleteData(job_translations, base_data, other_data, questions[1],
                          questions[2], tsv_data, scaler_params, get_translation_texts,
                          clock - 1)
        /\ pc = "done" => BothWritten

\* A run with a short code list has written both outputs.
C7_Witness ==
    /\ pc = "done"
    /\ BothWritten
    /\ Inconsistent(complete_data)
    /\ Len(DictGet(full_file.value, "job_codes")) = NJobs - 1
    /\ ~report.job_codes

\* C8: once convert_all_data has caught an exception - from a loader, from
\* the write of the full output, or from the summary after it - it prints
\* the error and returns None, create_compact_version is not entered and
\* the compact file is not touched in that run; when create_compact_version
\* is entered, convert_all_data has returned the file name and the full
\* file holds the document this run assembled.
C8_CompactOnlyAfterSuccess ==
    /\ (io \cap {"write_full", "getsize"}) # {} => exc # ""
    /\ exc # "" =>
         /\ pc # "compact"
         /\ compact_file = prev.compact_file
         /\ ~Printed(<<"saved", COMPACT>>)
         /\ pc \in {"main", "done", "idle"} =>
              output_file = "None" /\ Printed(<<"error", exc>>)
    /\ pc = "compact" =>
         /\ exc = ""
         /\ output_file = FULL
         /\ full_file = Written("indent=2", JsonOfComplete(complete_data))

\* The run ended after the summary failed: the full file is written, the
\* compact file is not.
C8_Witness ==
    /\ pc = "done"
    /\ io = {"getsize"}
    /\ full_file.st = "written"
    /\ compact_file = NoFile
    /\ output_file = "None"

FullKeys ==
    <<"job_translations", "job_codes", "pca_weights", "scaled_features", "job_names",
      "text_dict", "language_display", "questions", "mean_norms", "sd_norms", "weights",
      "scaler_params", "translations", "metadata", "norm_groups">>

\* C9: whenever convert_all_data returns the file name, the assembled and
\* the written document have exactly the fifteen documented top-level keys
\* in the documented order, each loader's output is the value of its key,
\* and job_names is job_translations["en"].
C9_FullSchema ==
    output_file = FULL =>
        /\ DictKeys(complete_data) = FullKeys
        /\ DictKeys(full_file.value) = FullKeys
        /\ DictGet(complete_data, "job_translations") = job_translations
        /\ \A k \in {"job_codes", "pca_weights", "scaled_features"} :
             DictGet(complete_data, k) = DictGet(base_data, k)
        /\ \A k \in {"text_dict", "language_display"} :
             DictGet(complete_data, k) = DictGet(other_data, k)
        /\ DictGet(complete_data, "questions") = questions[1]
        /\ \A k \in {"mean_norms", "sd_norms", "weights"} :
             DictGet(complete_data, k) = DictGet(tsv_data, k)
        /\ DictGet(complete_data, "scaler_params") = scaler_params
        /\ DictGet(complete_data, "job_names")
             = DictGet(DictGet(complete_data, "job_translations"), "en")
        /\ DictGet(full_file.value, "job_names")
             = DictGet(DictGet(full_file.value, "job_translations"), "en")

\* A run without text_dict.npy and weightsB5.tsv has written the full file.
C9_Witness ==
    /\ pc = "done"
    /\ output_file = FULL
    /\ fs["text_dict.npy"].st = "absent"
    /\ fs["weightsB5.tsv"].st = "absent"
    /\ Len(full_file.value.items) = 15

\* The current run and the run before it read the same inputs, and each
\* wrote its full document.
SameInputsTwice ==
    /\ pc = "done"
    /\ prev.ran
    /\ prev.fs = fs
    /\ prev.full_file.st = "written"
    /\ "write_full" \notin prev.io
    /\ full_file.st = "written"
    /\ "write_full" \notin io

\* C10: two runs on the same inputs write full documents that differ in
\* nothing but metadata.created_at, and compact documents that are equal.
C10_Deterministic ==
    SameInputsTwice =>
        /\ BlankMeta(full_file.value, <<"created_at">>)
             = BlankMeta(prev.full_file.value, <<"created_at">>)
        /\ (BothWritten /\ prev.compact_file.st = "written" /\ prev.io = {}) =>
             compact_file.value = prev.compact_file.value

\* Two runs on the same inputs, one of them absent, wrote both outputs at
\* different times.
C10_Witness ==
    /\ SameInputsTwice
    /\ BothWritten
    /\ prev.io = {}
    /\ fs["questions.tsv"].st = "absent"
    /\ DictGet(DictGet(full_file.value, "metadata"), "created_at")
         # DictGet(DictGet(prev.full_file.value, "metadata"), "created_at")

\* C11: in a run that wrote both outputs, metadata.n_questions of the full
\* document (the table's row count) equals metadata.n_questions of the
\* compact document (the length of questions["en"]): both are the row count
\* when questions.tsv has an English column, missing English cells
\* included, and both are 0 when questions.tsv is absent; with a table that
\* has no English column neither output is ever written.
C11_QuestionCounts ==
    /\ NoEnglishColumn => full_file = NoFile /\ compact_file = NoFile
    /\ (pc = "done" /\ BothWritten) =>
         LET t == fs["questions.tsv"]
             full_n == DictGet(DictGet(full_file.value, "metadata"), "n_questions")
             compact_n == DictGet(DictGet(compact_file.value, "metadata"), "n_questions")
         IN /\ compact_n = full_n
            /\ t.st # "bad"
            /\ t.st = "ok" => HasColumn(t.data, "en") /\ full_n = Len(t.data.rows)
            /\ t.st = "absent" => full_n = 0

\* Both outputs are written from a table whose English column has a
\* missing value; both counts are the row count.
C11_Witness ==
    /\ pc = "done"
    /\ BothWritten
    /\ fs["questions.tsv"].st = "ok"
    /\ \E q \in 1..NQuestions :
         fs["questions.tsv"].data.rows[q][ColumnIndex(fs["questions.tsv"].data, "en")] = <<>>
    /\ DictGet(DictGet(compact_file.value, "metadata"), "n_questions") = NQuestions
    /\ DictGet(DictGet(full_file.value, "metadata"), "n_questions") = NQuestions

====
